---- MODULE Spec2Model ----
(***************************************************************************)
(* Model of DuHasT's query queue (src/src/query_queue.rs) and of the       *)
(* receive loop of src/src/main.rs that feeds it.                          *)
(*                                                                         *)
(* A send_message call is a process: its position pc[c] moves between the  *)
(* points at which other threads can interleave (a blocking lock() of the  *)
(* std mutex, the await of send_to, the select! over the reply channel and *)
(* the timer).  got_reply and declare_dead contain no await and run as one *)
(* step while the mutex is free.                                           *)
(*                                                                         *)
(* The pure functions of src/src/bep_0042.rs (get_crc, gen_self_id) and of *)
(* src/src/dht.rs (DhtId::from_str, Display, CompactNodesList, the decode  *)
(* of incoming messages) are operators; FnSpec evaluates them on inputs    *)
(* chosen in its initial state.                                            *)
(***************************************************************************)
EXTENDS Naturals, Sequences, FiniteSets, TLC

(* ---------------- bounds of the model ---------------- *)
NumCalls == 2
MaxDead == 1
MaxRecv == 2
StartId == 65534

(* ---------------- program constants ---------------- *)
IdModulus == 65536
DHT_ID_BYTE_SIZE == 20
NODE_ADDR_BYTE_SIZE == 6
COMPACT_NODE_BYTE_SIZE == 26
ByteModulus == 256

Calls == 1..NumCalls
Peers == {"p1", "p2"}
WireBytes == {0, 1}
Kinds == {"q", "r", "e"}
OtherKinds == {"x"}

VARIABLES
    nodes,            \* QueryQueue.nodes: SocketAddr -> NodeQueue
    poisoned,         \* the std mutex around nodes is poisoned
    lock,             \* who holds the mutex: a call, or NoOwner
    pc,               \* position of each send_message call
    peer,             \* sock_addr of each call
    id,               \* the QueryId the call obtained
    out_t,            \* OutgoingMessage.t of the call (id_bytes)
    chan,             \* the call's oneshot channel
    result,           \* what the send_message future returned
    epoch,            \* number of declare_dead(peer) calls before the id was issued
    replaced,         \* the call's add_reply_info overwrote another query's Waiter
    main_pc,          \* the receive loop of main
    nrecv,            \* iterations of the receive loop so far
    dead,             \* number of declare_dead calls per peer
    little_endian,    \* byte order of the target the program was built for
    overflow_checks,  \* the build checks integer overflow (debug profile)
    arg,              \* the function under evaluation and its input
    ret               \* what the function returned

vars == <<nodes, poisoned, lock, pc, peer, id, out_t, chan, result, epoch,
          replaced, main_pc, nrecv, dead, little_endian, overflow_checks,
          arg, ret>>

NoOwner == 0
EmptyMap == [k \in {} |-> 0]
NoArg == [op |-> "none"]
NoRet == [kind |-> "none"]
NoPacket == [from |-> "none", y |-> "none", t |-> <<0, 0>>, id |-> 0]

Insert(m, k, v) == [x \in (DOMAIN m) \cup {k} |-> IF x = k THEN v ELSE m[x]]
Remove(m, k) == [x \in (DOMAIN m) \ {k} |-> m[x]]

(* ---------------- NodeQueue ---------------- *)
NodeQueue_new == [id |-> 0, waiting_for_reply |-> EmptyMap]

\* self.id += 1 on a u16 with overflow checks enabled panics at 65535.
get_next_id_overflows(q) == q.id = IdModulus - 1

get_next_id_stuck(q) == [queue |-> q, id |-> q.id + 1]

get_next_id_post(q) ==
    [queue |-> [q EXCEPT !.id = (q.id + 1) % IdModulus], id |-> q.id]

\* self.id += 1; self.id
get_next_id(q) ==
    [queue |-> [q EXCEPT !.id = (q.id + 1) % IdModulus],
     id |-> (q.id + 1) % IdModulus]

\* waiting_for_reply.insert(id, ReplyInfo { send })
add_reply_info(q, i, c) ==
    [q EXCEPT !.waiting_for_reply = Insert(@, i, c)]

\* the channels whose Sender add_reply_info drops by overwriting
Overwritten(q, i, c) ==
    IF i \in DOMAIN q.waiting_for_reply /\ q.waiting_for_reply[i] # c
    THEN {q.waiting_for_reply[i]} ELSE {}

WaiterFor_any(q, i) == {q.waiting_for_reply[k] : k \in DOMAIN q.waiting_for_reply}

\* waiting_for_reply.remove_entry(&id): the entry found, if any
WaiterFor(q, i) ==
    IF i \in DOMAIN q.waiting_for_reply THEN {q.waiting_for_reply[i]} ELSE {}

NodeQueue_got_reply_keep(q, i) == q

\* the map after NodeQueue::got_reply
NodeQueue_got_reply(q, i) ==
    [q EXCEPT !.waiting_for_reply = Remove(@, i)]

\* NodeQueue::remove
NodeQueue_remove(q, i) ==
    [q EXCEPT !.waiting_for_reply = Remove(@, i)]

\* guard.entry(sock_addr).or_default()
EntryOrDefault(m, p) == IF p \in DOMAIN m THEN m ELSE Insert(m, p, NodeQueue_new)

(* ---------------- byte conversions ---------------- *)
\* u16::to_be_bytes
ToBeBytes(n) == <<n \div ByteModulus, n % ByteModulus>>

\* u16::from_ne_bytes on a target of the given byte order
FromNeBytes(b, le) ==
    IF le THEN b[1] + ByteModulus * b[2] ELSE ByteModulus * b[1] + b[2]

(* ---------------- oneshot channel ---------------- *)
ChanEmpty == [st |-> "empty", pkt |-> NoPacket]
ChanClosed == [st |-> "closed", pkt |-> NoPacket]
ChanValue(pkt) == [st |-> "value", pkt |-> pkt]

ResNone == [kind |-> "none", pkt |-> NoPacket]
ResErr == [kind |-> "err", pkt |-> NoPacket]
ResOk(pkt) == [kind |-> "ok", pkt |-> pkt]

\* the Receiver half exists while the future is alive and has not left select!
ReceiverAlive(c) == pc[c] \in {"cs1", "sending", "sent", "cs2", "waiting"}

\* dropping the Sender of a channel that holds no value closes it
CloseAll(ch, cs) ==
    [c \in Calls |-> IF c \in cs /\ ch[c].st = "empty" THEN ChanClosed ELSE ch[c]]

\* all channels whose Sender is stored in queue q
SendersIn(q) == {q.waiting_for_reply[k] : k \in DOMAIN q.waiting_for_reply}

(* ---------------- incoming datagrams ---------------- *)
\* form "ok" is a bencoded dictionary with a string y and a byte string t;
\* the other forms are bytes that are no bencode at all and dictionaries
\* without a t or without a y.
Forms == {"ok", "not_bencode", "no_t", "no_y"}

Datagrams ==
    [from : Peers, y : Kinds, t : WireBytes \X WireBytes, form : {"ok"}]
    \cup [from : Peers, y : OtherKinds, t : {<<0, 0>>}, form : {"ok"}]
    \cup [from : {"p1"}, y : {"r"}, t : {<< >>, <<1>>}, form : {"ok"}]
    \cup [from : {"p1"}, y : {"r"}, t : {<<0, 0>>}, form : Forms \ {"ok"}]

\* serde_bencoded::from_bytes::<IncomingMessage>: both fields are required,
\* y is taken as any string
IncomingMessage_decode(d) ==
    IF d.form = "ok"
    THEN [ok |-> TRUE, y |-> d.y, t |-> d.t]
    ELSE [ok |-> FALSE, y |-> "none", t |-> << >>]

Message_decode_any(d) ==
    IF d.form \in {"not_bencode", "no_y"} THEN "err" ELSE "ok"

\* serde_bencoded::from_bytes::<Message<R>> (#[serde(tag = "y")], variants
\* q, r, e; the message has no field t), the body taken to fit the variant
Message_decode(d) ==
    IF d.form \in {"not_bencode", "no_y"} THEN "err"
    ELSE IF d.y \in Kinds THEN "ok" ELSE "err"

\* what one iteration of the receive loop of main does with a datagram
main_route(d) ==
    LET resp == IncomingMessage_decode(d)
    IN IF ~resp.ok THEN "panic_decode"          \* from_bytes(..).unwrap()
       ELSE IF Len(resp.t) < 2 THEN "panic_index"  \* resp.t[0], resp.t[1]
       ELSE IF resp.y \in {"r", "e"} THEN "got_reply"
       ELSE "ignored"

\* c's Waiter is the entry stored under (peer[c], id[c])
Registered(c) ==
    /\ peer[c] \in DOMAIN nodes
    /\ id[c] \in DOMAIN nodes[peer[c]].waiting_for_reply
    /\ nodes[peer[c]].waiting_for_reply[id[c]] = c

(* ---------------- initial state ---------------- *)
\* QueryQueue::new leaves nodes empty.  The second start is the queue after
\* StartId answered queries to every peer (counters at StartId, no Waiter
\* left), from which the 16-bit counter reaches its wrap within a few calls.
InitNodes ==
    {EmptyMap, [p \in Peers |-> [id |-> StartId, waiting_for_reply |-> EmptyMap]]}

Init ==
    /\ nodes \in InitNodes
    /\ poisoned = FALSE
    /\ lock = NoOwner
    /\ pc = [c \in Calls |-> "idle"]
    /\ peer = [c \in Calls |-> "p1"]
    /\ id = [c \in Calls |-> 0]
    /\ out_t = [c \in Calls |-> <<0, 0>>]
    /\ chan = [c \in Calls |-> ChanEmpty]
    /\ result = [c \in Calls |-> ResNone]
    /\ epoch = [c \in Calls |-> 0]
    /\ replaced = [c \in Calls |-> FALSE]
    /\ main_pc = "running"
    /\ nrecv = 0
    /\ dead = [p \in Peers |-> 0]
    /\ little_endian \in BOOLEAN
    /\ overflow_checks \in BOOLEAN
    /\ arg = NoArg
    /\ ret = NoRet

fn == <<arg, ret>>
queue == <<nodes, poisoned, lock, pc, peer, id, out_t, chan, result, epoch,
           replaced, main_pc, nrecv, dead, little_endian, overflow_checks>>
build == <<little_endian, overflow_checks>>
hist == <<epoch, replaced>>

(* ---------------- send_message ---------------- *)
\* first poll: oneshot::channel(), then self.nodes.lock().expect(..)
send_message_lock(c, p) ==
    /\ pc[c] = "idle"
    /\ \A b \in Calls : b < c => pc[b] # "idle"
    /\ lock = NoOwner
    /\ peer' = [peer EXCEPT ![c] = p]
    /\ IF poisoned
       THEN /\ pc' = [pc EXCEPT ![c] = "panic_poisoned"]
            /\ lock' = lock
       ELSE /\ pc' = [pc EXCEPT ![c] = "cs1"]
            /\ lock' = c
    /\ UNCHANGED <<nodes, poisoned, id, out_t, chan, result, hist, main_pc,
                   dead, build, fn, nrecv>>

\* entry(sock_addr).or_default(); get_next_id(); guard dropped;
\* id.to_be_bytes(); serde_bencoded::to_vec(&out_msg)
send_message_get_id(c, ser_ok) ==
    /\ pc[c] = "cs1"
    /\ lock = c
    /\ lock' = NoOwner
    /\ LET m == EntryOrDefault(nodes, peer[c])
           q == m[peer[c]]
           r == get_next_id(q)
       IN IF overflow_checks /\ get_next_id_overflows(q)
          THEN /\ nodes' = m
               /\ poisoned' = TRUE
               /\ pc' = [pc EXCEPT ![c] = "panic_overflow"]
               /\ UNCHANGED <<id, out_t, epoch, result>>
          ELSE /\ nodes' = [m EXCEPT ![peer[c]] = r.queue]
               /\ poisoned' = poisoned
               /\ id' = [id EXCEPT ![c] = r.id]
               /\ out_t' = [out_t EXCEPT ![c] = ToBeBytes(r.id)]
               /\ epoch' = [epoch EXCEPT ![c] = dead[peer[c]]]
               /\ IF ser_ok
                  THEN /\ pc' = [pc EXCEPT ![c] = "sending"]
                       /\ result' = result
                  ELSE /\ pc' = [pc EXCEPT ![c] = "done"]
                       /\ result' = [result EXCEPT ![c] = ResErr]
    /\ UNCHANGED <<peer, chan, replaced, main_pc, dead, build, fn, nrecv>>

\* udp.send_to(..).await returned Ok
send_to_ok(c) ==
    /\ pc[c] = "sending"
    /\ pc' = [pc EXCEPT ![c] = "sent"]
    /\ UNCHANGED <<nodes, poisoned, lock, peer, id, out_t, chan, result, hist,
                   main_pc, dead, build, fn, nrecv>>

send_to_err_registers(c) ==
    /\ pc[c] = "sending"
    /\ pc' = [pc EXCEPT ![c] = "done"]
    /\ result' = [result EXCEPT ![c] = ResErr]
    /\ nodes' = [EntryOrDefault(nodes, peer[c]) EXCEPT ![peer[c]] = add_reply_info(@, id[c], c)]
    /\ UNCHANGED <<poisoned, lock, peer, id, out_t, chan, hist,
                   main_pc, dead, build, fn, nrecv>>

\* udp.send_to(..).await returned Err: map_err(|_| ())?
send_to_err(c) ==
    /\ pc[c] = "sending"
    /\ pc' = [pc EXCEPT ![c] = "done"]
    /\ result' = [result EXCEPT ![c] = ResErr]
    /\ UNCHANGED <<nodes, poisoned, lock, peer, id, out_t, chan, hist,
                   main_pc, dead, build, fn, nrecv>>

\* the second self.nodes.lock().expect(..)
register_lock(c) ==
    /\ pc[c] = "sent"
    /\ lock = NoOwner
    /\ IF poisoned
       THEN /\ pc' = [pc EXCEPT ![c] = "panic_poisoned"]
            /\ lock' = lock
       ELSE /\ pc' = [pc EXCEPT ![c] = "cs2"]
            /\ lock' = c
    /\ UNCHANGED <<nodes, poisoned, peer, id, out_t, chan, result, hist,
                   main_pc, dead, build, fn, nrecv>>

register_holding(c) ==
    /\ pc[c] = "cs2"
    /\ lock = c
    /\ lock' = c
    /\ LET m == EntryOrDefault(nodes, peer[c])
           q == m[peer[c]]
       IN /\ nodes' = [m EXCEPT ![peer[c]] = add_reply_info(q, id[c], c)]
          /\ chan' = CloseAll(chan, Overwritten(q, id[c], c))
          /\ replaced' = [replaced EXCEPT ![c] = Overwritten(q, id[c], c) # {}]
    /\ pc' = [pc EXCEPT ![c] = "waiting"]
    /\ UNCHANGED <<poisoned, peer, id, out_t, result, epoch, main_pc, dead, build, fn, nrecv>>

\* entry(sock_addr).or_default(); add_reply_info(id, send); guard dropped
register(c) ==
    /\ pc[c] = "cs2"
    /\ lock = c
    /\ lock' = NoOwner
    /\ LET m == EntryOrDefault(nodes, peer[c])
           q == m[peer[c]]
       IN /\ nodes' = [m EXCEPT ![peer[c]] = add_reply_info(q, id[c], c)]
          /\ chan' = CloseAll(chan, Overwritten(q, id[c], c))
          /\ replaced' = [replaced EXCEPT ![c] = Overwritten(q, id[c], c) # {}]
    /\ pc' = [pc EXCEPT ![c] = "waiting"]
    /\ UNCHANGED <<poisoned, peer, id, out_t, result, epoch, main_pc, dead, build, fn, nrecv>>

\* select!: res = recv => res.map_err(|_| ())
select_recv(c) ==
    /\ pc[c] = "waiting"
    /\ chan[c].st # "empty"
    /\ pc' = [pc EXCEPT ![c] = "done"]
    /\ result' = [result EXCEPT ![c] =
                    IF chan[c].st = "value" THEN ResOk(chan[c].pkt) ELSE ResErr]
    /\ UNCHANGED <<nodes, poisoned, lock, peer, id, out_t, chan, hist,
                   main_pc, dead, build, fn, nrecv>>

\* select!: _ = sleep(timeout) => ..; the other branch (recv) is dropped
select_timeout(c) ==
    /\ pc[c] = "waiting"
    /\ pc' = [pc EXCEPT ![c] = "expired"]
    /\ UNCHANGED <<nodes, poisoned, lock, peer, id, out_t, chan, result, hist,
                   main_pc, dead, build, fn, nrecv>>

\* query_expired: self.nodes.lock().expect(..)
query_expired_lock(c) ==
    /\ pc[c] = "expired"
    /\ lock = NoOwner
    /\ IF poisoned
       THEN /\ pc' = [pc EXCEPT ![c] = "panic_poisoned"]
            /\ lock' = lock
       ELSE /\ pc' = [pc EXCEPT ![c] = "cs3"]
            /\ lock' = c
    /\ UNCHANGED <<nodes, poisoned, peer, id, out_t, chan, result, hist,
                   main_pc, dead, build, fn, nrecv>>

query_expired_drop_empty(c) ==
    /\ pc[c] = "cs3"
    /\ lock = c
    /\ lock' = NoOwner
    /\ IF peer[c] \in DOMAIN nodes
       THEN /\ nodes' = LET q == NodeQueue_remove(nodes[peer[c]], id[c])
                        IN IF DOMAIN q.waiting_for_reply = {}
                           THEN Remove(nodes, peer[c])
                           ELSE [nodes EXCEPT ![peer[c]] = q]
            /\ chan' = CloseAll(chan, WaiterFor(nodes[peer[c]], id[c]))
       ELSE UNCHANGED <<nodes, chan>>
    /\ pc' = [pc EXCEPT ![c] = "done"]
    /\ result' = [result EXCEPT ![c] = ResErr]
    /\ UNCHANGED <<poisoned, peer, id, out_t, hist, main_pc, dead, build, fn, nrecv>>

\* query_expired: get_mut(&addr) -> node_queue.remove(id); then Err(())
query_expired(c) ==
    /\ pc[c] = "cs3"
    /\ lock = c
    /\ lock' = NoOwner
    /\ IF peer[c] \in DOMAIN nodes
       THEN /\ nodes' = [nodes EXCEPT ![peer[c]] = NodeQueue_remove(@, id[c])]
            /\ chan' = CloseAll(chan, WaiterFor(nodes[peer[c]], id[c]))
       ELSE UNCHANGED <<nodes, chan>>
    /\ pc' = [pc EXCEPT ![c] = "done"]
    /\ result' = [result EXCEPT ![c] = ResErr]
    /\ UNCHANGED <<poisoned, peer, id, out_t, hist, main_pc, dead, build, fn, nrecv>>

\* the caller drops the future at one of its await points; the Receiver and
\* the Sleep of select! are dropped with it
abandon(c) ==
    /\ pc[c] \in {"sending", "waiting"}
    /\ pc' = [pc EXCEPT ![c] = "dropped"]
    /\ UNCHANGED <<nodes, poisoned, lock, peer, id, out_t, chan, result, hist,
                   main_pc, dead, build, fn, nrecv>>

(* ---------------- got_reply ---------------- *)
\* QueryQueue::got_reply with NodeQueue::got_reply inlined.  The packet put
\* into the channel is tagged with the token got_reply was called with.
got_reply(from, i, data) ==
    /\ lock = NoOwner
    /\ UNCHANGED lock
    /\ IF poisoned
       THEN /\ main_pc' = "panic_poisoned"
            /\ UNCHANGED <<nodes, poisoned, chan>>
       ELSE IF from \in DOMAIN nodes /\ WaiterFor(nodes[from], i) # {}
            THEN LET w == CHOOSE c \in WaiterFor(nodes[from], i) : TRUE
                 IN /\ nodes' = [nodes EXCEPT ![from] = NodeQueue_got_reply(@, i)]
                    /\ IF ReceiverAlive(w)
                       THEN /\ chan' = [chan EXCEPT ![w] =
                                          ChanValue([data EXCEPT !.id = i])]
                            /\ UNCHANGED <<poisoned, main_pc>>
                       ELSE \* info.send.send(packet) is Err; unwrap() panics
                            /\ poisoned' = TRUE
                            /\ main_pc' = "panic_reply"
                            /\ chan' = chan
            ELSE UNCHANGED <<nodes, poisoned, chan, main_pc>>

\* one iteration of the receive loop of main (MaxRecv stands for its 200)
main_recv(d) ==
    /\ main_pc = "running"
    /\ nrecv < MaxRecv
    /\ nrecv' = nrecv + 1
    /\ LET resp == IncomingMessage_decode(d)
           data == [from |-> d.from, y |-> d.y, t |-> d.t, id |-> 0]
           route == main_route(d)
       IN IF route \in {"panic_decode", "panic_index"}
          THEN /\ main_pc' = route
               /\ UNCHANGED <<nodes, poisoned, lock, chan>>
          ELSE IF route = "got_reply"
          THEN got_reply(d.from, FromNeBytes(resp.t, little_endian), data)
          ELSE UNCHANGED <<nodes, poisoned, lock, chan, main_pc>>
    /\ UNCHANGED <<pc, peer, id, out_t, result, hist, dead, build, fn>>

(* ---------------- declare_dead ---------------- *)
declare_dead_leak(p) ==
    /\ lock = NoOwner
    /\ ~poisoned
    /\ dead[p] < MaxDead
    /\ dead' = [dead EXCEPT ![p] = @ + 1]
    /\ nodes' = Remove(nodes, p)
    /\ UNCHANGED <<poisoned, lock, pc, peer, id, out_t, chan, result, hist, main_pc, build, fn, nrecv>>

declare_dead(p) ==
    /\ lock = NoOwner
    /\ ~poisoned
    /\ dead[p] < MaxDead
    /\ dead' = [dead EXCEPT ![p] = @ + 1]
    /\ nodes' = Remove(nodes, p)
    /\ chan' = IF p \in DOMAIN nodes THEN CloseAll(chan, SendersIn(nodes[p])) ELSE chan
    /\ UNCHANGED <<poisoned, lock, pc, peer, id, out_t, result, hist, main_pc, build, fn, nrecv>>

Next ==
    \/ \E c \in Calls, p \in Peers : send_message_lock(c, p)
    \/ \E c \in Calls, ok \in BOOLEAN : send_message_get_id(c, ok)
    \/ \E c \in Calls : send_to_ok(c)
    \/ \E c \in Calls : send_to_err(c)
    \/ \E c \in Calls : register_lock(c)
    \/ \E c \in Calls : register(c)
    \/ \E c \in Calls : select_recv(c)
    \/ \E c \in Calls : select_timeout(c)
    \/ \E c \in Calls : query_expired_lock(c)
    \/ \E c \in Calls : query_expired(c)
    \/ \E c \in Calls : abandon(c)
    \/ \E d \in Datagrams : main_recv(d)
    \/ \E p \in Peers : declare_dead(p)

Spec == Init /\ [][Next]_vars

\* The runtime polls every spawned task that can make progress, the socket
\* completes a send and the timer of a pending select! fires; calls, drops of
\* futures, datagrams and declare_dead are up to the environment.
TaskStep(c) ==
    \/ \E ok \in BOOLEAN : send_message_get_id(c, ok)
    \/ send_to_ok(c)
    \/ send_to_err(c)
    \/ register_lock(c)
    \/ register(c)
    \/ select_recv(c)
    \/ select_timeout(c)
    \/ query_expired_lock(c)
    \/ query_expired(c)

FairSpec == Spec /\ \A c \in Calls : WF_vars(TaskStep(c))

(* ======================= bep_0042.rs ======================= *)
(* ---------------- bit operations on bytes ---------------- *)
\* bit i of a byte
Bit(a, i) == (a \div 2^i) % 2

BitAnd(a, b) ==
    Bit(a, 0) * Bit(b, 0) + 2 * Bit(a, 1) * Bit(b, 1)
    + 4 * Bit(a, 2) * Bit(b, 2) + 8 * Bit(a, 3) * Bit(b, 3)
    + 16 * Bit(a, 4) * Bit(b, 4) + 32 * Bit(a, 5) * Bit(b, 5)
    + 64 * Bit(a, 6) * Bit(b, 6) + 128 * Bit(a, 7) * Bit(b, 7)

\* a ^ b = a + b - 2 * (a & b),  a | b = a + b - (a & b)
BitXor(a, b) == (a + b) - 2 * BitAnd(a, b)

BitOr(a, b) == (a + b) - BitAnd(a, b)

\* r << n on a u8: the bits shifted out are lost
ShlU8_short(r, n) == (r * 2^(n - 1)) % ByteModulus

ShlU8(r, n) == (r * 2^n) % ByteModulus

(* ---------------- CRC-32C ---------------- *)
\* A u32 is kept as its four bytes, most significant first (to_be_bytes).
XorWord(w, v) ==
    <<BitXor(w[1], v[1]), BitXor(w[2], v[2]), BitXor(w[3], v[3]), BitXor(w[4], v[4])>>

\* The byte-wise table of CRC-32C (Castagnoli, reflected polynomial
\* 0x82F63B78): the entry at index i + 1 is the word 0x000000ii after eight
\* steps  w = (w >> 1) ^ (0x82F63B78 if w & 1).
Crc32cTable ==
    <<
      <<0, 0, 0, 0>>, <<242, 107, 131, 3>>, <<225, 59, 112, 247>>, <<19, 80, 243, 244>>,
      <<199, 154, 151, 31>>, <<53, 241, 20, 28>>, <<38, 161, 231, 232>>, <<212, 202, 100, 235>>,
      <<138, 217, 88, 207>>, <<120, 178, 219, 204>>, <<107, 226, 40, 56>>, <<153, 137, 171, 59>>,
      <<77, 67, 207, 208>>, <<191, 40, 76, 211>>, <<172, 120, 191, 39>>, <<94, 19, 60, 36>>,
      <<16, 94, 199, 111>>, <<226, 53, 68, 108>>, <<241, 101, 183, 152>>, <<3, 14, 52, 155>>,
      <<215, 196, 80, 112>>, <<37, 175, 211, 115>>, <<54, 255, 32, 135>>, <<196, 148, 163, 132>>,
      <<154, 135, 159, 160>>, <<104, 236, 28, 163>>, <<123, 188, 239, 87>>, <<137, 215, 108, 84>>,
      <<93, 29, 8, 191>>, <<175, 118, 139, 188>>, <<188, 38, 120, 72>>, <<78, 77, 251, 75>>,
      <<32, 189, 142, 222>>, <<210, 214, 13, 221>>, <<193, 134, 254, 41>>, <<51, 237, 125, 42>>,
      <<231, 39, 25, 193>>, <<21, 76, 154, 194>>, <<6, 28, 105, 54>>, <<244, 119, 234, 53>>,
      <<170, 100, 214, 17>>, <<88, 15, 85, 18>>, <<75, 95, 166, 230>>, <<185, 52, 37, 229>>,
      <<109, 254, 65, 14>>, <<159, 149, 194, 13>>, <<140, 197, 49, 249>>, <<126, 174, 178, 250>>,
      <<48, 227, 73, 177>>, <<194, 136, 202, 178>>, <<209, 216, 57, 70>>, <<35, 179, 186, 69>>,
      <<247, 121, 222, 174>>, <<5, 18, 93, 173>>, <<22, 66, 174, 89>>, <<228, 41, 45, 90>>,
      <<186, 58, 17, 126>>, <<72, 81, 146, 125>>, <<91, 1, 97, 137>>, <<169, 106, 226, 138>>,
      <<125, 160, 134, 97>>, <<143, 203, 5, 98>>, <<156, 155, 246, 150>>, <<110, 240, 117, 149>>,
      <<65, 123, 29, 188>>, <<179, 16, 158, 191>>, <<160, 64, 109, 75>>, <<82, 43, 238, 72>>,
      <<134, 225, 138, 163>>, <<116, 138, 9, 160>>, <<103, 218, 250, 84>>, <<149, 177, 121, 87>>,
      <<203, 162, 69, 115>>, <<57, 201, 198, 112>>, <<42, 153, 53, 132>>, <<216, 242, 182, 135>>,
      <<12, 56, 210, 108>>, <<254, 83, 81, 111>>, <<237, 3, 162, 155>>, <<31, 104, 33, 152>>,
      <<81, 37, 218, 211>>, <<163, 78, 89, 208>>, <<176, 30, 170, 36>>, <<66, 117, 41, 39>>,
      <<150, 191, 77, 204>>, <<100, 212, 206, 207>>, <<119, 132, 61, 59>>, <<133, 239, 190, 56>>,
      <<219, 252, 130, 28>>, <<41, 151, 1, 31>>, <<58, 199, 242, 235>>, <<200, 172, 113, 232>>,
      <<28, 102, 21, 3>>, <<238, 13, 150, 0>>, <<253, 93, 101, 244>>, <<15, 54, 230, 247>>,
      <<97, 198, 147, 98>>, <<147, 173, 16, 97>>, <<128, 253, 227, 149>>, <<114, 150, 96, 150>>,
      <<166, 92, 4, 125>>, <<84, 55, 135, 126>>, <<71, 103, 116, 138>>, <<181, 12, 247, 137>>,
      <<235, 31, 203, 173>>, <<25, 116, 72, 174>>, <<10, 36, 187, 90>>, <<248, 79, 56, 89>>,
      <<44, 133, 92, 178>>, <<222, 238, 223, 177>>, <<205, 190, 44, 69>>, <<63, 213, 175, 70>>,
      <<113, 152, 84, 13>>, <<131, 243, 215, 14>>, <<144, 163, 36, 250>>, <<98, 200, 167, 249>>,
      <<182, 2, 195, 18>>, <<68, 105, 64, 17>>, <<87, 57, 179, 229>>, <<165, 82, 48, 230>>,
      <<251, 65, 12, 194>>, <<9, 42, 143, 193>>, <<26, 122, 124, 53>>, <<232, 17, 255, 54>>,
      <<60, 219, 155, 221>>, <<206, 176, 24, 222>>, <<221, 224, 235, 42>>, <<47, 139, 104, 41>>,
      <<130, 246, 59, 120>>, <<112, 157, 184, 123>>, <<99, 205, 75, 143>>, <<145, 166, 200, 140>>,
      <<69, 108, 172, 103>>, <<183, 7, 47, 100>>, <<164, 87, 220, 144>>, <<86, 60, 95, 147>>,
      <<8, 47, 99, 183>>, <<250, 68, 224, 180>>, <<233, 20, 19, 64>>, <<27, 127, 144, 67>>,
      <<207, 181, 244, 168>>, <<61, 222, 119, 171>>, <<46, 142, 132, 95>>, <<220, 229, 7, 92>>,
      <<146, 168, 252, 23>>, <<96, 195, 127, 20>>, <<115, 147, 140, 224>>, <<129, 248, 15, 227>>,
      <<85, 50, 107, 8>>, <<167, 89, 232, 11>>, <<180, 9, 27, 255>>, <<70, 98, 152, 252>>,
      <<24, 113, 164, 216>>, <<234, 26, 39, 219>>, <<249, 74, 212, 47>>, <<11, 33, 87, 44>>,
      <<223, 235, 51, 199>>, <<45, 128, 176, 196>>, <<62, 208, 67, 48>>, <<204, 187, 192, 51>>,
      <<162, 75, 181, 166>>, <<80, 32, 54, 165>>, <<67, 112, 197, 81>>, <<177, 27, 70, 82>>,
      <<101, 209, 34, 185>>, <<151, 186, 161, 186>>, <<132, 234, 82, 78>>, <<118, 129, 209, 77>>,
      <<40, 146, 237, 105>>, <<218, 249, 110, 106>>, <<201, 169, 157, 158>>, <<59, 194, 30, 157>>,
      <<239, 8, 122, 118>>, <<29, 99, 249, 117>>, <<14, 51, 10, 129>>, <<252, 88, 137, 130>>,
      <<178, 21, 114, 201>>, <<64, 126, 241, 202>>, <<83, 46, 2, 62>>, <<161, 69, 129, 61>>,
      <<117, 143, 229, 214>>, <<135, 228, 102, 213>>, <<148, 180, 149, 33>>, <<102, 223, 22, 34>>,
      <<56, 204, 42, 6>>, <<202, 167, 169, 5>>, <<217, 247, 90, 241>>, <<43, 156, 217, 242>>,
      <<255, 86, 189, 25>>, <<13, 61, 62, 26>>, <<30, 109, 205, 238>>, <<236, 6, 78, 237>>,
      <<195, 141, 38, 196>>, <<49, 230, 165, 199>>, <<34, 182, 86, 51>>, <<208, 221, 213, 48>>,
      <<4, 23, 177, 219>>, <<246, 124, 50, 216>>, <<229, 44, 193, 44>>, <<23, 71, 66, 47>>,
      <<73, 84, 126, 11>>, <<187, 63, 253, 8>>, <<168, 111, 14, 252>>, <<90, 4, 141, 255>>,
      <<142, 206, 233, 20>>, <<124, 165, 106, 23>>, <<111, 245, 153, 227>>, <<157, 158, 26, 224>>,
      <<211, 211, 225, 171>>, <<33, 184, 98, 168>>, <<50, 232, 145, 92>>, <<192, 131, 18, 95>>,
      <<20, 73, 118, 180>>, <<230, 34, 245, 183>>, <<245, 114, 6, 67>>, <<7, 25, 133, 64>>,
      <<89, 10, 185, 100>>, <<171, 97, 58, 103>>, <<184, 49, 201, 147>>, <<74, 90, 74, 144>>,
      <<158, 144, 46, 123>>, <<108, 251, 173, 120>>, <<127, 171, 94, 140>>, <<141, 192, 221, 143>>,
      <<227, 48, 168, 26>>, <<17, 91, 43, 25>>, <<2, 11, 216, 237>>, <<240, 96, 91, 238>>,
      <<36, 170, 63, 5>>, <<214, 193, 188, 6>>, <<197, 145, 79, 242>>, <<55, 250, 204, 241>>,
      <<105, 233, 240, 213>>, <<155, 130, 115, 214>>, <<136, 210, 128, 34>>, <<122, 185, 3, 33>>,
      <<174, 115, 103, 202>>, <<92, 24, 228, 201>>, <<79, 72, 23, 61>>, <<189, 35, 148, 62>>,
      <<243, 110, 111, 117>>, <<1, 5, 236, 118>>, <<18, 85, 31, 130>>, <<224, 62, 156, 129>>,
      <<52, 244, 248, 106>>, <<198, 159, 123, 105>>, <<213, 207, 136, 157>>, <<39, 164, 11, 158>>,
      <<121, 183, 55, 186>>, <<139, 220, 180, 185>>, <<152, 140, 71, 77>>, <<106, 231, 196, 78>>,
      <<190, 45, 160, 165>>, <<76, 70, 35, 166>>, <<95, 22, 208, 82>>, <<173, 125, 83, 81>>
    >>

\* one byte: crc = table[(crc ^ byte) & 0xFF] ^ (crc >> 8)
Crc32cByte(w, b) ==
    XorWord(<<0, w[1], w[2], w[3]>>, Crc32cTable[BitXor(w[4], b) + 1])

RECURSIVE Crc32cBytes(_, _)
Crc32cBytes(w, buf) ==
    IF buf = << >> THEN w
    ELSE Crc32cBytes(Crc32cByte(w, Head(buf)), Tail(buf))

\* crc32c_hw::compute, as the four bytes of the u32 it returns
crc32c_compute(buf) ==
    XorWord(Crc32cBytes(<<255, 255, 255, 255>>, buf), <<255, 255, 255, 255>>)

(* ---------------- get_crc, gen_self_id ---------------- *)
\* an IpAddr is its octets: four for V4, sixteen for V6
MaskV4 == <<3, 15, 63, 255>>
MaskV6 == <<1, 3, 7, 15, 31, 63, 127, 255>>

\* mask.iter().zip(&octets).map(|(a, b)| a & b): zip stops at the shorter
MaskedOctets(ip) ==
    IF Len(ip) = 4
    THEN <<BitAnd(MaskV4[1], ip[1]), BitAnd(MaskV4[2], ip[2]),
           BitAnd(MaskV4[3], ip[3]), BitAnd(MaskV4[4], ip[4])>>
    ELSE <<BitAnd(MaskV6[1], ip[1]), BitAnd(MaskV6[2], ip[2]),
           BitAnd(MaskV6[3], ip[3]), BitAnd(MaskV6[4], ip[4]),
           BitAnd(MaskV6[5], ip[5]), BitAnd(MaskV6[6], ip[6]),
           BitAnd(MaskV6[7], ip[7]), BitAnd(MaskV6[8], ip[8])>>

get_crc_unshifted(ip, r) ==
    LET masked == MaskedOctets(ip)
    IN crc32c_compute(<<BitOr(masked[1], r % 8)>> \o Tail(masked))

\* masked[0] |= r << 5: the buffer handed to crc32c_hw::compute
get_crc_masked(ip, r) ==
    LET masked == MaskedOctets(ip)
    IN <<BitOr(masked[1], ShlU8(r, 5))>> \o Tail(masked)

\* masked[0] |= r << 5; crc32c_hw::compute(&masked)
get_crc(ip, r) == crc32c_compute(get_crc_masked(ip, r))

\* gen_self_id after DhtId::new(rng) has produced `original`
gen_self_id(self_ip, original) ==
    LET crc == get_crc(self_ip, original[20])
    IN [original EXCEPT ![1] = crc[1],
                        ![2] = crc[2],
                        ![3] = BitOr(BitAnd(crc[3], 248), BitAnd(original[3], 7))]

(* ---------------- inputs of gen_self_id ---------------- *)
\* the addresses of the BEP 42 examples, the all-ones address and two V6 ones
SelfIps ==
    {<<124, 31, 75, 21>>, <<21, 75, 31, 124>>, <<65, 23, 51, 170>>,
     <<255, 255, 255, 255>>,
     <<32, 1, 13, 184, 0, 0, 0, 0, 0, 0, 0, 0, 0, 0, 0, 1>>,
     [i \in 1..16 |-> 255]}

\* what DhtId::new(rng) can return: twenty bytes, of which the third and the
\* last are the ones gen_self_id reads
SeedBytes == {0, 100}
ThirdBytes == {0, 7, 165, 248}
LastBytes == {0, 1, 7, 8, 86, 255}

Candidate(seed, third, last) ==
    [i \in 1..20 |-> IF i = 3 THEN third ELSE IF i = 20 THEN last
                                  ELSE (seed + 13 * i) % ByteModulus]

GenSelfIdInputs ==
    {[op |-> "gen_self_id", ip |-> ip, original |-> Candidate(s, b, r)] :
        ip \in SelfIps, s \in SeedBytes, b \in ThirdBytes, r \in LastBytes}

(* ---------------- inputs of get_crc ---------------- *)
\* every address of SelfIps with every value of the byte r
SaltBytes == 0..(ByteModulus - 1)

GetCrcInputs == {[op |-> "get_crc", ip |-> ip, r |-> r] : ip \in SelfIps, r \in SaltBytes}

\* get_crc(ip, r): the buffer it hands to the CRC and the CRC it returns
get_crc_call ==
    /\ arg.op = "get_crc"
    /\ ret = NoRet
    /\ ret' = [kind |-> "crc", fed |-> get_crc_masked(arg.ip, arg.r),
               crc |-> get_crc(arg.ip, arg.r)]
    /\ UNCHANGED <<arg, queue>>

(* ======================= dht.rs ======================= *)
Ok(v) == [kind |-> "ok", val |-> v]
Err(e) == [kind |-> "err", err |-> e]
Panic(e) == [kind |-> "panic", err |-> e]

(* ---------------- CompactNode, CompactNodesList ---------------- *)
\* slice.chunks(n): consecutive pieces of n elements, the last one shorter
\* when the length is no multiple of n
RECURSIVE Chunks(_, _)
Chunks(buf, n) ==
    IF Len(buf) = 0 THEN << >>
    ELSE IF Len(buf) <= n THEN <<buf>>
    ELSE <<SubSeq(buf, 1, n)>> \o Chunks(SubSeq(buf, n + 1, Len(buf)), n)

\* CompactNode::unpack past its assert!
CompactNode_unpack(buf) ==
    [id |-> SubSeq(buf, 1, DHT_ID_BYTE_SIZE),
     ip |-> SubSeq(buf, DHT_ID_BYTE_SIZE + 1, DHT_ID_BYTE_SIZE + 4),
     port |-> buf[DHT_ID_BYTE_SIZE + 5] + ByteModulus * buf[DHT_ID_BYTE_SIZE + 6]]

\* CompactNodesList::iter, collected; the assert! of unpack panics on a
\* chunk of another size
CompactNodesList_iter(list) ==
    LET chunks == Chunks(list, COMPACT_NODE_BYTE_SIZE)
    IN IF \E k \in 1..Len(chunks) : Len(chunks[k]) # COMPACT_NODE_BYTE_SIZE
       THEN Panic("assertion failed")
       ELSE Ok([k \in 1..Len(chunks) |-> CompactNode_unpack(chunks[k])])

CompactNodesList_visit_bytes_any(v) == Ok(v)

\* CompactNodesListDeserializerVisitor::visit_borrowed_bytes / visit_byte_buf
CompactNodesList_visit_bytes(v) ==
    IF Len(v) % COMPACT_NODE_BYTE_SIZE = 0 THEN Ok(v) ELSE Err("invalid_length")

\* byte strings of lengths around the multiples of the node size, the
\* bytes all different within one string
RawSeeds == {0, 1, 200}
NodesListLengths == {0, 1, 25, 26, 27, 51, 52, 53, 78}
RawBytes(seed, len) == [i \in 1..len |-> (seed + 7 * i) % ByteModulus]

NodesListInputs ==
    {[op |-> "nodes_list", buf |-> RawBytes(s, n)] :
        s \in RawSeeds, n \in NodesListLengths}

\* deserialize a CompactNodesList from a byte string and collect its nodes
nodes_list_call ==
    /\ arg.op = "nodes_list"
    /\ ret = NoRet
    /\ ret' = LET d == CompactNodesList_visit_bytes(arg.buf)
              IN IF d.kind = "ok" THEN CompactNodesList_iter(d.val) ELSE d
    /\ UNCHANGED <<arg, queue>>

(* ---------------- DhtId: from_str, Display ---------------- *)
\* A &str is the sequence of its UTF-8 bytes.
HexDigits == (48..57) \cup (65..70) \cup (97..102)

\* char::to_digit(16) of an ASCII hex digit
HexValue(b) ==
    IF b \in 48..57 THEN b - 48 ELSE IF b \in 97..102 THEN b - 87 ELSE b - 55

\* std::str::from_utf8 accepts the two bytes: two ASCII characters or one
\* two-byte character
IsUtf8Pair(c) ==
    \/ c[1] < 128 /\ c[2] < 128
    \/ c[1] \in 194..223 /\ c[2] \in 128..191

\* u8::from_str_radix(c, 16) on a str of two bytes: an optional leading '+'
\* (43), then hex digits only
from_str_radix(c) ==
    IF c[1] = 43
    THEN IF c[2] \in HexDigits THEN Ok(HexValue(c[2])) ELSE Err("InvalidDigit")
    ELSE IF c[1] \in HexDigits /\ c[2] \in HexDigits
         THEN Ok(16 * HexValue(c[1]) + HexValue(c[2]))
         ELSE Err("InvalidDigit")

\* DhtId::from_str: the loop stops at the first chunk that is no UTF-8
\* (unwrap panics) or no number (`?` returns the error)
DhtId_from_str(s) ==
    IF Len(s) = 40
    THEN LET chunks == Chunks(s, 2)
             bad == {k \in 1..Len(chunks) :
                       \/ ~IsUtf8Pair(chunks[k])
                       \/ from_str_radix(chunks[k]).kind = "err"}
         IN IF bad = {}
            THEN Ok([k \in 1..Len(chunks) |-> from_str_radix(chunks[k]).val])
            ELSE LET first == CHOOSE k \in bad : \A j \in bad : k <= j
                 IN IF IsUtf8Pair(chunks[first])
                    THEN Err("malformed hex")
                    ELSE Panic("from_utf8")
    ELSE Err("expecting 40 char string")

\* one digit of {:02x}
HexChar(d) == IF d < 10 THEN 48 + d ELSE 87 + d

DhtId_to_string_swapped(key) ==
    [i \in 1..(2 * Len(key)) |->
        IF i % 2 = 0 THEN HexChar(key[i \div 2] \div 16)
                     ELSE HexChar(key[(i + 1) \div 2] % 16)]

\* Display for DhtId: write!(f, "{:02x}", b) for every byte
DhtId_to_string(key) ==
    [i \in 1..(2 * Len(key)) |->
        IF i % 2 = 1 THEN HexChar(key[(i + 1) \div 2] \div 16)
                     ELSE HexChar(key[i \div 2] % 16)]

\* str::to_uppercase on ASCII text
ToUpper(s) == [i \in 1..Len(s) |-> IF s[i] \in 97..122 THEN s[i] - 32 ELSE s[i]]

\* the id of the test of bep_0042.rs
TestId ==
    <<95, 191, 191, 241, 12, 93, 106, 78, 200, 168, 142, 76, 106, 180, 194, 139,
      149, 238, 228, 1>>

DhtIds ==
    {TestId, [i \in 1..20 |-> 0], [i \in 1..20 |-> 255], [i \in 1..20 |-> 10 * i]}
    \cup {Candidate(s, b, r) : s \in SeedBytes, b \in ThirdBytes, r \in LastBytes}

\* well-formed texts with one character replaced by 'g', '+', '-', ' ', 'F'
\* or 'x', with two bytes replaced by the two bytes of U+00E9, cut short and
\* extended
OddChars == {103, 43, 45, 32, 70, 120}
HexTexts == {DhtId_to_string(TestId), DhtId_to_string(Candidate(100, 165, 86))}

FromStrTexts ==
    HexTexts
    \cup {[t EXCEPT ![p] = b] : t \in HexTexts, p \in 1..40, b \in OddChars}
    \cup {[t EXCEPT ![p] = 195, ![p + 1] = 169] : t \in HexTexts, p \in {1, 2, 20, 39}}
    \cup {SubSeq(t, 1, n) : t \in HexTexts, n \in {0, 1, 38, 39}}
    \cup {t \o u : t \in HexTexts, u \in {<<48>>, <<48, 48>>, <<195, 169>>}}

FromStrInputs == {[op |-> "from_str", s |-> t] : t \in FromStrTexts}

ToStringInputs == {[op |-> "to_string", key |-> k] : k \in DhtIds}

from_str_call ==
    /\ arg.op = "from_str"
    /\ ret = NoRet
    /\ ret' = DhtId_from_str(arg.s)
    /\ UNCHANGED <<arg, queue>>

\* id.to_string(), then DhtId::from_str of the text and of its upper-cased form
to_string_call ==
    /\ arg.op = "to_string"
    /\ ret = NoRet
    /\ ret' = LET text == DhtId_to_string(arg.key)
              IN [kind |-> "text", text |-> text,
                  parsed |-> DhtId_from_str(text),
                  parsed_upper |-> DhtId_from_str(ToUpper(text))]
    /\ UNCHANGED <<arg, queue>>

(* ---------------- decoding a datagram ---------------- *)
DecodeInputs == {[op |-> "decode", d |-> d] : d \in Datagrams}

\* the shallow and the full decode of a datagram, and what the receive loop
\* does with it
decode_call ==
    /\ arg.op = "decode"
    /\ ret = NoRet
    /\ ret' = [kind |-> "decoded",
               shallow |-> IncomingMessage_decode(arg.d),
               full |-> Message_decode(arg.d),
               route |-> main_route(arg.d)]
    /\ UNCHANGED <<arg, queue>>

(* ---------------- DhtId and NodeAddr from a byte string ---------------- *)
\* buf.copy_from_slice(&v[..]) into a buffer of n bytes
copy_from_slice(v, n) == [i \in 1..n |-> v[i]]

\* DhtIdDeserializerVisitor::visit_bytes (visit_str hands it the text's bytes)
DhtId_visit_bytes(v) ==
    IF Len(v) = DHT_ID_BYTE_SIZE
    THEN Ok(copy_from_slice(v, DHT_ID_BYTE_SIZE))
    ELSE Err("invalid_length")

NodeAddr_visit_bytes_any(v) == Ok(v)

\* NodeAddrDeserializerVisitor::visit_bytes
NodeAddr_visit_bytes(v) ==
    IF Len(v) = NODE_ADDR_BYTE_SIZE
    THEN Ok(copy_from_slice(v, NODE_ADDR_BYTE_SIZE))
    ELSE Err("invalid_length")

\* byte strings of the two sizes, one byte shorter, one byte longer, and of
\* sizes far from both
VisitLengths == {0, 1, 5, 6, 7, 12, 19, 20, 21, 26, 40}

VisitBytesInputs ==
    {[op |-> "visit_bytes", buf |-> RawBytes(s, n)] :
        s \in RawSeeds, n \in VisitLengths}

\* deserialize a DhtId and a NodeAddr from the same byte string
visit_bytes_call ==
    /\ arg.op = "visit_bytes"
    /\ ret = NoRet
    /\ ret' = [kind |-> "visited",
               id |-> DhtId_visit_bytes(arg.buf),
               addr |-> NodeAddr_visit_bytes(arg.buf)]
    /\ UNCHANGED <<arg, queue>>

(* ---------------- DhtContactId ---------------- *)
\* u16::to_be_bytes
to_be_bytes(port) == <<port \div ByteModulus, port % ByteModulus>>

\* DhtContactId::new: the id, the octets of the address, the port in
\* network byte order; a SocketAddrV4 is [ip, port]
DhtContactId_new(dht_id, socket_addr) ==
    dht_id \o socket_addr.ip \o to_be_bytes(socket_addr.port)

\* ports whose two bytes are equal and ports whose two bytes differ
ContactPorts == {0, 1, 255, 256, 257, 6881, 51966, 65535}
ContactIps == {<<0, 0, 0, 0>>, <<124, 31, 75, 21>>, <<255, 255, 255, 255>>}
ContactIds == {TestId, [i \in 1..20 |-> 0], [i \in 1..20 |-> 10 * i]}

ContactIdInputs ==
    {[op |-> "contact_id", id |-> k, addr |-> [ip |-> ip, port |-> port]] :
        k \in ContactIds, ip \in ContactIps, port \in ContactPorts}

\* CompactNode::unpack of the bytes of DhtContactId::new
contact_id_call ==
    /\ arg.op = "contact_id"
    /\ ret = NoRet
    /\ ret' = LET buf == DhtContactId_new(arg.id, arg.addr)
              IN IF Len(buf) = COMPACT_NODE_BYTE_SIZE
                 THEN Ok(CompactNode_unpack(buf))
                 ELSE Panic("assertion failed")
    /\ UNCHANGED <<arg, queue>>

(* ======================= function calls ======================= *)
\* The pure functions of bep_0042.rs and dht.rs are evaluated on one input
\* per behaviour; the query queue stays as constructed.
FnInputs ==
    GenSelfIdInputs \cup NodesListInputs \cup FromStrInputs \cup ToStringInputs
    \cup DecodeInputs \cup ContactIdInputs \cup GetCrcInputs
    \cup VisitBytesInputs

FnInit ==
    /\ nodes = EmptyMap
    /\ poisoned = FALSE
    /\ lock = NoOwner
    /\ pc = [c \in Calls |-> "idle"]
    /\ peer = [c \in Calls |-> "p1"]
    /\ id = [c \in Calls |-> 0]
    /\ out_t = [c \in Calls |-> <<0, 0>>]
    /\ chan = [c \in Calls |-> ChanEmpty]
    /\ result = [c \in Calls |-> ResNone]
    /\ epoch = [c \in Calls |-> 0]
    /\ replaced = [c \in Calls |-> FALSE]
    /\ main_pc = "running"
    /\ nrecv = 0
    /\ dead = [p \in Peers |-> 0]
    /\ little_endian = TRUE
    /\ overflow_checks = TRUE
    /\ arg \in FnInputs
    /\ ret = NoRet

gen_self_id_call ==
    /\ arg.op = "gen_self_id"
    /\ ret = NoRet
    /\ ret' = [kind |-> "id", id |-> gen_self_id(arg.ip, arg.original)]
    /\ UNCHANGED <<arg, queue>>

FnNext ==
    \/ gen_self_id_call
    \/ nodes_list_call
    \/ from_str_call
    \/ to_string_call
    \/ decode_call
    \/ contact_id_call
    \/ get_crc_call
    \/ visit_bytes_call

FnSpec == FnInit /\ [][FnNext]_vars

(* ======================= properties ======================= *)

\* the token has been issued and the future has not finished
Outstanding(c) == pc[c] \in {"sending", "sent", "cs2", "waiting", "expired", "cs3"}

\* the packet belongs to the query (peer[c], id[c])
ForQuery(pkt, c) == pkt.from = peer[c] /\ pkt.id = id[c]

\* C1: a packet passed to got_reply(peer, token, bytes) only ever reaches the
\* channel and the result of a send_message call issued to that peer with
\* that token.
C1_NoMisdelivery ==
    \A c \in Calls :
        /\ chan[c].st = "value" => ForQuery(chan[c].pkt, c)
        /\ result[c].kind = "ok" => ForQuery(result[c].pkt, c)

\* a reply reached one query while another query to the same peer was waiting
C1_Witness ==
    \E a, b \in Calls :
        /\ a # b /\ peer[a] = peer[b] /\ id[a] # id[b]
        /\ result[a].kind = "ok"
        /\ pc[b] = "waiting" /\ Registered(b)

\* C2 (as claimed): when a reply datagram arrives whose t is the two bytes
\* emitted for query n, got_reply is called with n: the Waiter registered
\* under n for that peer is taken out by that iteration of the receive loop.
C2_Claim ==
    [][\A c \in Calls : \A k \in {"r", "e"} :
          (/\ Registered(c)
           /\ ~poisoned
           /\ main_recv([from |-> peer[c], y |-> k, t |-> out_t[c], form |-> "ok"]))
              => ~Registered(c)']_vars

\* C3 (as claimed): once got_reply has handed bytes to a registered Waiter,
\* the future resolves to Ok with exactly those bytes.
C3_Claim ==
    \A c \in Calls :
        (chan[c].st = "value" /\ pc[c] = "done") => result[c] = ResOk(chan[c].pkt)

\* C3 (amended): got_reply, having taken the lock, removes the Waiter found
\* under (peer, token) in that same call and, when the Receiver still exists,
\* puts exactly those bytes into its channel; a future that leaves select!
\* with bytes in its channel resolves to Ok with exactly those bytes unless
\* its timeout branch is taken or it is dropped.
C3_Amended ==
    /\ [][\A from \in Peers : \A t \in WireBytes \X WireBytes : \A k \in {"r", "e"} :
            LET i == IF little_endian THEN t[1] + 256 * t[2] ELSE 256 * t[1] + t[2]
            IN (/\ nrecv' # nrecv
                /\ ~poisoned
                /\ from \in DOMAIN nodes
                /\ i \in DOMAIN nodes[from].waiting_for_reply
                /\ main_recv([from |-> from, y |-> k, t |-> t, form |-> "ok"]))
               => LET w == nodes[from].waiting_for_reply[i]
                  IN /\ i \notin DOMAIN nodes'[from].waiting_for_reply
                     /\ ReceiverAlive(w) =>
                          /\ chan'[w].st = "value"
                          /\ chan'[w].pkt.from = from
                          /\ chan'[w].pkt.t = t
                          /\ chan'[w].pkt.y = k
                          /\ chan'[w].pkt.id = i]_vars
    /\ [][\A c \in Calls :
            (chan[c].st = "value" /\ pc[c] = "waiting" /\ pc'[c] # "waiting")
              => \/ pc'[c] = "done" /\ result'[c] = ResOk(chan[c].pkt)
                 \/ pc'[c] \in {"expired", "dropped"}]_vars
    /\ [](\A c \in Calls : result[c].kind = "ok" =>
            chan[c].st = "value" /\ result[c].pkt = chan[c].pkt)

\* a reply was delivered and the future resolved to Ok with it
C3_Witness ==
    \E c \in Calls :
        /\ pc[c] = "done" /\ result[c].kind = "ok"
        /\ result[c].pkt = chan[c].pkt /\ ~Registered(c)

\* C4 (as claimed): a query whose timeout branch was taken completes with an
\* error, and at that moment no Waiter for its (peer, token) is in the map.
C4_Claim ==
    [][\A c \in Calls :
          (pc[c] \in {"expired", "cs3"} /\ pc'[c] \notin {"expired", "cs3"})
              => /\ pc'[c] = "done"
                 /\ result'[c].kind = "err"
                 /\ (peer[c] \in DOMAIN nodes' =>
                       id[c] \notin DOMAIN nodes'[peer[c]].waiting_for_reply)]_vars

\* C5 (as claimed): got_reply never fails when the future that awaited the
\* token has gone away.
C5_Claim == main_pc # "panic_reply"

\* C6 (as claimed): the Waiter of an abandoned future is eventually freed.
C6_Claim ==
    \A c \in Calls : (pc[c] = "dropped" /\ Registered(c)) ~> ~Registered(c)

\* C7 (as claimed): no two outstanding queries to one peer carry the same token.
C7_Claim ==
    \A a, b \in Calls :
        (a # b /\ Outstanding(a) /\ Outstanding(b) /\ peer[a] = peer[b])
            => id[a] # id[b]

\* C7 (amended): no two outstanding queries to one peer whose tokens were
\* issued with no declare_dead(peer) in between carry the same token.
C7_Amended ==
    \A a, b \in Calls :
        (a # b /\ Outstanding(a) /\ Outstanding(b) /\ peer[a] = peer[b]
             /\ epoch[a] = epoch[b])
            => id[a] # id[b]

\* two queries to one peer, issued from the same queue, are outstanding
C7_Witness ==
    \E a, b \in Calls :
        /\ a # b /\ Outstanding(a) /\ Outstanding(b)
        /\ peer[a] = peer[b] /\ epoch[a] = epoch[b] /\ id[a] # id[b]

\* C8: the first call after the peer's queue is created issues token 1, each
\* call issues the previous token plus one and advances the counter by exactly
\* one, nothing else moves the counter, and the token goes on the wire as its
\* two-byte big-endian encoding.
C8_TokenSequence ==
    /\ [][\A c \in Calls :
            (pc[c] = "cs1" /\ pc'[c] \in {"sending", "done"})
              => LET prev == IF peer[c] \in DOMAIN nodes
                             THEN nodes[peer[c]].id ELSE 0
                 IN prev < 65535 =>
                      /\ id'[c] = prev + 1
                      /\ nodes'[peer[c]].id = prev + 1
                      /\ out_t'[c] = <<(prev + 1) \div 256, (prev + 1) % 256>>]_vars
    /\ [][\A p \in Peers :
            (p \in DOMAIN nodes /\ p \in DOMAIN nodes' /\ nodes'[p].id # nodes[p].id)
              => \E c \in Calls : pc[c] = "cs1" /\ peer[c] = p /\ pc'[c] # "cs1"]_vars

\* the first two calls to a fresh peer carry 0x00 0x01 and 0x00 0x02
C8_Witness ==
    \E a, b \in Calls :
        /\ peer[a] = peer[b]
        /\ id[a] = 1 /\ out_t[a] = <<0, 1>> /\ pc[a] = "done" /\ result[a].kind = "err"
        /\ id[b] = 2 /\ out_t[b] = <<0, 2>> /\ Outstanding(b)

\* C9 (as claimed): when the last issued token is 65535, get_next_id returns
\* 0 and completes normally.
C9_Claim ==
    [][\A c \in Calls :
          (/\ pc[c] = "cs1" /\ pc'[c] # "cs1"
           /\ peer[c] \in DOMAIN nodes /\ nodes[peer[c]].id = 65535)
              => /\ pc'[c] \in {"sending", "done"}
                 /\ id'[c] = 0
                 /\ ~poisoned']_vars

\* C10 (as claimed): a Waiter that replaced an older one leaves the map only
\* by its own reply or its own timeout (or with the whole queue, or by being
\* replaced in its turn).
C10_Claim ==
    [][\A c \in Calls :
          (replaced[c] /\ Registered(c) /\ ~Registered(c)')
              => \/ chan'[c].st = "value"
                 \/ main_pc' = "panic_reply"
                 \/ pc[c] = "cs3" /\ pc'[c] = "done"
                 \/ dead'[peer[c]] # dead[peer[c]]
                 \/ \E b \in Calls : b # c /\ pc[b] = "cs2" /\ pc'[b] = "waiting"]_vars

\* the waiting_for_reply map of every peer's queue (empty where no queue exists)
WaitingMaps(m) ==
    [p \in Peers |-> IF p \in DOMAIN m THEN m[p].waiting_for_reply ELSE EmptyMap]

\* the call has not passed its send_to yet
BeforeSent(c) == pc[c] \in {"idle", "cs1", "sending"}

\* C11: when the UDP send of a send_message call fails, the call returns an
\* error, no Waiter of the call is registered, and no step of the call up to
\* and including the failed send changes a waiting_for_reply map.
C11_SendFailure ==
    /\ [][\A c \in Calls :
            (pc[c] = "sending" /\ pc'[c] = "done")
                => /\ result'[c] = ResErr
                   /\ ~Registered(c)'
                   /\ WaitingMaps(nodes') = WaitingMaps(nodes)]_vars
    /\ [][\A c \in Calls :
            (BeforeSent(c) /\ pc'[c] # pc[c] /\ pc'[c] # "dropped")
                => WaitingMaps(nodes') = WaitingMaps(nodes)]_vars
    /\ [](\A c \in Calls : BeforeSent(c) => \A p \in Peers :
             p \in DOMAIN nodes => c \notin SendersIn(nodes[p]))

\* a send failed while another query to the same peer had its Waiter registered
C11_Witness ==
    \E a, b \in Calls :
        /\ a # b /\ peer[a] = peer[b]
        /\ pc[a] = "done" /\ result[a] = ResErr /\ chan[a] = ChanEmpty /\ ~replaced[a]
        /\ id[a] # 0
        /\ pc[b] = "waiting" /\ Registered(b)

\* declare_dead(peer[c]) ran after the call obtained its token
DeclaredDeadSince(c) == epoch[c] < dead[peer[c]]

\* C12 (as claimed): declare_dead(peer) removes the peer's whole queue, and a
\* future that was outstanding for that peer then completes only by its own
\* timeout firing, not earlier.
C12_Claim ==
    /\ [][\A p \in Peers : dead'[p] # dead[p] => p \notin DOMAIN nodes']_vars
    /\ [][\A c \in Calls :
            (pc[c] = "waiting" /\ DeclaredDeadSince(c)) => pc'[c] # "done"]_vars

\* C12 (amended): declare_dead(peer) removes the peer's whole queue and with
\* it the Sender of every registered Waiter; the channel of every query
\* registered for that peer is closed by that step and stays closed, and a
\* future that finishes with a closed channel finishes with an error.
C12_Amended ==
    /\ [][\A p \in Peers : dead'[p] # dead[p] =>
            /\ p \notin DOMAIN nodes'
            /\ \A c \in Calls :
                  (Registered(c) /\ peer[c] = p) => chan'[c] = ChanClosed]_vars
    /\ [][\A c \in Calls : chan[c] = ChanClosed => chan'[c] = ChanClosed]_vars
    /\ [](\A c \in Calls :
            (chan[c] = ChanClosed /\ pc[c] = "done") => result[c] = ResErr)

\* a future still waiting in select! whose channel declare_dead has closed
C12_Witness ==
    \E c \in Calls :
        /\ pc[c] = "waiting" /\ chan[c] = ChanClosed /\ DeclaredDeadSince(c)
        /\ \A b \in Calls \ {c} : id[b] # id[c] \/ peer[b] # peer[c]

\* the positions of send_message between taking the MutexGuard and dropping it
HoldsGuard(c) == pc[c] \in {"cs1", "cs2", "cs3"}

\* the positions at which the send_message future is suspended in an await
Suspended(c) == pc[c] \in {"sending", "waiting"}

\* the step with which the holder of the mutex leaves its critical section
GuardDropped(c) ==
    /\ \/ \E ok \in BOOLEAN : send_message_get_id(c, ok)
       \/ register(c)
       \/ query_expired(c)
    /\ lock' = NoOwner

\* C13: the mutex is only held inside the synchronous critical sections of
\* send_message, never by a suspended task, and its holder can always go on
\* to drop the guard: got_reply never waits on a lock held across an await.
C13_NoLockAcrossAwait ==
    /\ lock # NoOwner => (lock \in Calls /\ HoldsGuard(lock))
    /\ \A c \in Calls : Suspended(c) => lock # c
    /\ lock # NoOwner => ENABLED GuardDropped(lock)

\* one task is inside a critical section while another is suspended in
\* select! and the receive loop is running
C13_Witness ==
    \E a, b \in Calls :
        /\ lock = a /\ pc[a] = "cs2"
        /\ pc[b] = "waiting" /\ Registered(b)
        /\ main_pc = "running"

\* C14 (as claimed): the receive loop survives every datagram: bytes that are
\* not valid bencode, a dictionary without t or without y, and a t shorter
\* than two bytes are rejected without aborting the loop.
C14_Claim == main_pc \notin {"panic_decode", "panic_index"}

\* C15: gen_self_id(ip) returns the candidate id with its first 21 bits
\* replaced by the top 21 bits of crc32c over the masked IP, the salt
\* (candidate[19] & 0x07) put into the high 3 bits of the first masked byte:
\* id[0] = crc >> 24, id[1] = (crc >> 16) & 0xFF, id[2] & 0xF8 =
\* (crc >> 8) & 0xF8; the low 3 bits of id[2] and id[3..19] are the
\* candidate's.  For 124.31.75.21 with salt 1 the prefix is 5fbfb8.
C15_GenSelfId ==
    (arg.op = "gen_self_id" /\ ret # NoRet) =>
        LET original == arg.original
            salt == original[20] % 8
            masked == MaskedOctets(arg.ip)
            crc == crc32c_compute(<<masked[1] + 32 * salt>> \o Tail(masked))
        IN /\ ret.kind = "id"
           /\ ret.id[1] = crc[1]
           /\ ret.id[2] = crc[2]
           /\ ret.id[3] \div 8 = crc[3] \div 8
           /\ ret.id[3] % 8 = original[3] % 8
           /\ \A i \in 4..20 : ret.id[i] = original[i]
           /\ (arg.ip = <<124, 31, 75, 21>> /\ salt = 1) =>
                 (ret.id[1] = 95 /\ ret.id[2] = 191 /\ ret.id[3] \div 8 = 23)

\* an id generated from a candidate whose last byte has bits above the salt
C15_Witness ==
    /\ arg.op = "gen_self_id" /\ ret # NoRet
    /\ arg.original[20] = 86
    /\ arg.ip = <<21, 75, 31, 124>>
    /\ ret.id[1] = 90 /\ ret.id[1] # arg.original[1]

\* C16: decoding a CompactNodesList succeeds exactly when the byte string's
\* length is a multiple of 26 (zero included); iterating it then yields
\* length / 26 nodes, the k-th one made of the k-th 26-byte chunk (id from
\* its first 20 bytes, address from the next 4, port from the last 2); any
\* other length fails with a length error.
C16_NodesList ==
    (arg.op = "nodes_list" /\ ret # NoRet) =>
        LET buf == arg.buf
            n == Len(buf) \div 26
        IN IF Len(buf) % 26 = 0
           THEN /\ ret.kind = "ok"
                /\ Len(ret.val) = n
                /\ \A k \in 1..n :
                      LET base == 26 * (k - 1)
                          node == ret.val[k]
                      IN /\ node.id = [i \in 1..20 |-> buf[base + i]]
                         /\ node.ip = [i \in 1..4 |-> buf[base + 20 + i]]
                         /\ node.port \in {buf[base + 25] + 256 * buf[base + 26],
                                           256 * buf[base + 25] + buf[base + 26]}
           ELSE ret = Err("invalid_length")

\* a list of three nodes has been decoded
C16_Witness ==
    /\ arg.op = "nodes_list" /\ ret # NoRet
    /\ Len(arg.buf) = 78 /\ ret.kind = "ok" /\ Len(ret.val) = 3
    /\ ret.val[3].id[1] # ret.val[1].id[1]

\* C17 (as claimed): DhtId::from_str returns an error value, and never
\* panics, for every input whose length is not 40 or that contains a
\* character that is no hex digit; it succeeds only on 40 hex digits.
C17_Claim ==
    (arg.op = "from_str" /\ ret # NoRet) =>
        IF Len(arg.s) = 40 /\ \A i \in 1..40 : arg.s[i] \in HexDigits
        THEN ret.kind = "ok"
        ELSE ret.kind = "err"

\* C18: for every DhtId, from_str(id.to_string()) is Ok(id), and so is
\* from_str of the upper-cased text; the text is 40 lowercase hex characters.
C18_RoundTrip ==
    (arg.op = "to_string" /\ ret # NoRet) =>
        /\ ret.parsed = Ok(arg.key)
        /\ ret.parsed_upper = Ok(arg.key)
        /\ Len(ret.text) = 40
        /\ \A i \in 1..40 : ret.text[i] \in (48..57) \cup (97..102)

\* the id of the repository's test has been displayed and parsed back
C18_Witness ==
    /\ arg.op = "to_string" /\ ret # NoRet
    /\ arg.key = TestId
    /\ ret.text[1] = 53 /\ ret.text[2] = 102 /\ ret.text[39] = 48 /\ ret.text[40] = 49
    /\ ret.parsed.kind = "ok"

TokenBytesFor(n) ==
    IF little_endian THEN <<n % ByteModulus, n \div ByteModulus>>
    ELSE <<n \div ByteModulus, n % ByteModulus>>

\* C20 (as claimed): once send_message has handed its datagram to the socket,
\* a reply for its (peer, token) that reaches got_reply before the timeout is
\* delivered to the query's channel, also when it arrives after the send has
\* completed and before the sender has re-taken the lock to register.
C20_Claim ==
    [][\A c \in Calls : \A k \in {"r", "e"} :
          (/\ nrecv' # nrecv
           /\ pc[c] \in {"sent", "cs2", "waiting"}
           /\ chan[c] = ChanEmpty
           /\ ~poisoned
           /\ main_recv([from |-> peer[c], y |-> k, t |-> TokenBytesFor(id[c]),
                         form |-> "ok"]))
              => chan'[c].st = "value"]_vars

\* C21 (as claimed): a registered Waiter leaves the map only through the
\* delivery of its reply by got_reply or through the expiry of its own
\* timeout.  (The removal of the whole queue by declare_dead is left aside.)
C21_Claim ==
    [][\A c \in Calls :
          (Registered(c) /\ ~Registered(c)' /\ dead' = dead)
              => \/ nrecv' # nrecv
                 \/ pc[c] = "cs3" /\ pc'[c] = "done"]_vars

\* C22 (as claimed): the entry that query_expired removes for a call is the
\* Waiter this call registered; no other call's Waiter leaves the map in
\* that step.
C22_Claim ==
    [][\A c \in Calls :
          (pc[c] = "cs3" /\ pc'[c] = "done")
              => \A b \in Calls \ {c} : Registered(b) => Registered(b)']_vars

\* C23: a peer's queue comes into being in a send_message to that peer and
\* is then retained, also with no Waiters, until declare_dead(peer): no
\* other step removes the peer's entry, and as long as it exists its
\* counter only moves on by one (modulo 2^16).
C23_QueueRetained ==
    /\ [][\A p \in Peers :
            (p \in DOMAIN nodes /\ dead'[p] = dead[p])
                => /\ p \in DOMAIN nodes'
                   /\ nodes'[p].id \in {nodes[p].id, (nodes[p].id + 1) % IdModulus}]_vars
    /\ [][\A p \in Peers :
            (p \notin DOMAIN nodes /\ p \in DOMAIN nodes')
                => \E c \in Calls :
                      /\ peer[c] = p
                      /\ pc[c] \in {"cs1", "cs2"}
                      /\ pc'[c] # pc[c]]_vars

\* the queue of a peer whose only query has been answered: no Waiter left,
\* the counter kept
C23_Witness ==
    \E c \in Calls :
        /\ pc[c] = "done" /\ result[c].kind = "ok"
        /\ dead[peer[c]] = 0
        /\ peer[c] \in DOMAIN nodes
        /\ DOMAIN nodes[peer[c]].waiting_for_reply = {}
        /\ nodes[peer[c]].id = id[c]

\* C24: packing and unpacking a compact node agree on the port byte order:
\* for every (id, IPv4 address, port), CompactNode::unpack applied to the 26
\* bytes produced by DhtContactId::new returns the same id, the same address
\* and the same port.
C24_Claim ==
    (arg.op = "contact_id" /\ ret # NoRet) =>
        /\ ret.kind = "ok"
        /\ ret.val.id = arg.id
        /\ ret.val.ip = arg.addr.ip
        /\ ret.val.port = arg.addr.port

\* C25: only the low 3 bits of the salt byte influence the identity prefix:
\* for every IP address and every byte r, get_crc(ip, r) = get_crc(ip, r & 7),
\* the byte fed to the CRC in position 0 being
\* (ip[0] & mask[0]) | ((r & 7) << 5) and the other bytes the masked octets;
\* the call returns a CRC for every r in 0..255.
C25_LowBits ==
    (arg.op = "get_crc" /\ ret # NoRet) =>
        LET salt == arg.r % 8
            mask == IF Len(arg.ip) = 4 THEN MaskV4 ELSE MaskV6
            first == BitAnd(arg.ip[1], mask[1])
        IN /\ ret.kind = "crc"
           /\ ret.crc = get_crc(arg.ip, salt)
           /\ Len(ret.fed) = Len(mask)
           /\ ret.fed[1] = first + 32 * salt
           /\ first < 32
           /\ \A i \in 2..Len(mask) : ret.fed[i] = BitAnd(arg.ip[i], mask[i])
           /\ ret.crc = crc32c_compute(ret.fed)

\* a call whose r has bits above the low three and bits within them
C25_Witness ==
    /\ arg.op = "get_crc" /\ ret # NoRet
    /\ arg.r = 249
    /\ arg.ip = <<124, 31, 75, 21>>
    /\ ret.fed[1] = 32
    /\ ret.crc = get_crc(arg.ip, 1)
    /\ ret.crc # get_crc(arg.ip, 0)

\* C26: decoding a byte string into a DhtId (the node id) succeeds exactly
\* when it is 20 bytes long and decoding into a NodeAddr succeeds exactly
\* when it is 6 bytes long; on success the decoded value holds the input
\* bytes unchanged and in order, and on any other length decoding returns a
\* length error.
C26_Lengths ==
    (arg.op = "visit_bytes" /\ ret # NoRet) =>
        /\ IF Len(arg.buf) = 20
           THEN ret.id.kind = "ok" /\ ret.id.val = arg.buf
           ELSE ret.id = Err("invalid_length")
        /\ IF Len(arg.buf) = 6
           THEN ret.addr.kind = "ok" /\ ret.addr.val = arg.buf
           ELSE ret.addr = Err("invalid_length")

\* a 6-byte string decoded into a NodeAddr and refused as a DhtId
C26_Witness ==
    /\ arg.op = "visit_bytes" /\ ret # NoRet
    /\ Len(arg.buf) = 6
    /\ ret.addr = Ok(<<8, 15, 22, 29, 36, 43>>)
    /\ ret.id.kind = "err"

====
